---- MODULE Spec2Model ----
(***************************************************************************)
(* A model of pyrts/model.py: the PyRTS coefficient model and its          *)
(* line-oriented ".sph" reader.  One PyRTS object is followed from its     *)
(* construction through the calls of read_sph_stream made on it; every     *)
(* iteration of the reader's "for line in fileobj" loop is one step.       *)
(*                                                                         *)
(* Python values are represented as follows.  An optional value is a       *)
(* sequence of length at most one (None is <<>>).  A header token is the   *)
(* sequence of its characters; a body token is a string.  A float is the   *)
(* integer number of tenths it denotes, a knot position the integer number *)
(* of millionths.  The numpy array is a record of its shape and its data,  *)
(* the data indexed by 0-based 4-tuples.  An exception is the string of    *)
(* its assertion message, or of its class for the built-in ones.           *)
(***************************************************************************)
EXTENDS Integers, Sequences, FiniteSets, TLC

\* ------------------------------------------------------------------ bounds
MaxKnots == 1
MaxDegree == 2
MaxLineLen == 3
MaxLines == 5

\* ------------------------------------------------------- optional values
None == <<>>
Some(x) == <<x>>
Val(o) == o[1]

\* --------------------------------------------------------------- outcomes
OK == "ok"
SHHeaderError == "Wrong number of 1s in SH header"
KnotsHeaderError == "Wrong number of 1s in knots header"
TooManyLines == "Too many lines!"
TooMuchData == "Too much data"
NoShapeError == "You must provide a filename or degree"
IndexError == "IndexError"
ValueError == "ValueError"
OSError == "OSError"

\* --------------------------------------------------------------- the data
DEFAULT_KNOTS ==
  << 1000000, 965120, 926750, 884540, 838100, 787010,
     730810, 668990, 600970, 526150, 443840, 353290,
     253670, 144090, 23530, -10909, -254990, -415500,
     -592070, -786310, -1000000 >>

Indices(shape) ==
  (0 .. shape[1] - 1) \X (0 .. shape[2] - 1) \X (0 .. shape[3] - 1) \X (0 .. shape[4] - 1)

\* np.zeros(shape)
Zeros(shape) == [shape |-> shape, data |-> [i \in Indices(shape) |-> 0]]

\* a faulty allocation: the last axis one short
AllocateCoefsShort(k, d) == Some(Zeros(<<Len(k), 2, d + 1, d>>))

\* PyRTS._allocate_coefs: the array for knot table k and degree d
AllocateCoefs(k, d) == Some(Zeros(<<Len(k), 2, d + 1, d + 1>>))

\* a faulty constructor: the final assertion left out
CoefsUnchecked(c) == TRUE

\* the assertion that ends PyRTS.__init__
CoefsPresent(c) == c # None

\* ------------------------------------------------------------- the header
Digits == {"0", "1", "2", "3", "4", "5", "6", "7", "8", "9"}

\* int(token) succeeds
IsIntLiteral(tok) == Len(tok) > 0 /\ \A i \in 1 .. Len(tok) : tok[i] \in Digits

RECURSIVE Count1(_)
\* token.count('1')
Count1(tok) ==
  IF tok = <<>> THEN 0
  ELSE (IF tok[1] = "1" THEN 1 ELSE 0) + Count1(Tail(tok))

\* a faulty header reading: blank lines skipped before the header
SkipsBlankLines(line) == line # <<>>

\* "if header is None: header = line.split()": the first line is the header,
\* whatever it holds
TakenAsHeader(line) == TRUE

\* a faulty header reading: the count of active degrees taken as the degree
HeaderDegreeIsCount(used_degrees_in_file) == used_degrees_in_file

\* the degree a header with this many active degrees stands for
HeaderDegree(used_degrees_in_file) == used_degrees_in_file - 1

\* a faulty header reading: the degree assertion left out
DegreeUnchecked(used_degrees_in_file, deg) == TRUE

\* the header's degree agrees with a degree that is already set
DegreeMatches(used_degrees_in_file, deg) == HeaderDegree(used_degrees_in_file) = deg

\* a faulty header reading: the knots assertion left out
KnotsUnchecked(k, used_knots_in_file) == TRUE

\* the header's knot count agrees with the knot table
KnotsMatch(k, used_knots_in_file) == Len(k) = used_knots_in_file

HeaderFail(e, deg, c) == [err |-> e, degree |-> deg, coefs |-> c]

\* a faulty header reading: the degree and the array taken from every header
\* that matches the knot table, whatever degree the model has
ReadHeaderTrustingFile(h, deg, k, c) ==
  IF Len(h) < 1 THEN HeaderFail(IndexError, deg, c)
  ELSE IF ~IsIntLiteral(h[1]) THEN HeaderFail(ValueError, deg, c)
  ELSE IF Len(h) < 3 THEN HeaderFail(IndexError, deg, c)
  ELSE IF ~IsIntLiteral(h[3]) THEN HeaderFail(ValueError, deg, c)
  ELSE IF Len(h) < 4 THEN HeaderFail(IndexError, deg, c)
  ELSE IF ~KnotsMatch(k, Count1(h[4])) THEN HeaderFail(KnotsHeaderError, deg, c)
  ELSE [err |-> OK, degree |-> Some(HeaderDegree(Count1(h[2]))),
        coefs |-> AllocateCoefs(k, HeaderDegree(Count1(h[2])))]

\* The first iteration of the loop: split line h against degree deg,
\* knot table k and array c; the error raised, if any, and the new degree
\* and array.
ReadHeaderLine(h, deg, k, c) ==
  IF Len(h) < 1 THEN HeaderFail(IndexError, deg, c)
  ELSE IF ~IsIntLiteral(h[1]) THEN HeaderFail(ValueError, deg, c)
  ELSE IF Len(h) < 2 THEN HeaderFail(IndexError, deg, c)
  ELSE IF deg # None /\ ~DegreeMatches(Count1(h[2]), Val(deg))
    THEN HeaderFail(SHHeaderError, deg, c)
  ELSE IF Len(h) < 3 THEN HeaderFail(IndexError, deg, c)
  ELSE IF ~IsIntLiteral(h[3]) THEN HeaderFail(ValueError, deg, c)
  ELSE IF Len(h) < 4 THEN HeaderFail(IndexError, deg, c)
  ELSE IF ~KnotsMatch(k, Count1(h[4])) THEN HeaderFail(KnotsHeaderError, deg, c)
  ELSE IF c = None
    THEN [err |-> OK, degree |-> Some(HeaderDegree(Count1(h[2]))),
          coefs |-> AllocateCoefs(k, HeaderDegree(Count1(h[2])))]
  ELSE [err |-> OK, degree |-> deg, coefs |-> c]

\* --------------------------------------------------------------- the body
FloatOf == [t \in {"0.5", "0.1"} |-> IF t = "0.5" THEN 5 ELSE 1]

\* float(token) succeeds
IsFloatLiteral(tok) == tok \in DOMAIN FloatOf

\* a faulty decoding: odd positions imaginary, even positions real
ComponentSwapped(m) == IF m % 2 = 0 THEN 0 ELSE 1

\* the array component the token at position m of a group belongs to
Component(m) == IF m = 0 \/ m % 2 = 1 THEN 0 ELSE 1

\* a faulty counter: the order not advanced after the first token
NextMiNotAfterFirst(m, mi) == IF m > 0 /\ m % 2 = 0 THEN mi + 1 ELSE mi

\* a faulty counter: the order advanced after every token
NextMiAlways(m, mi) == mi + 1

\* the order counter after the token at position m
NextMi(m, mi) == IF m = 0 \/ m % 2 = 0 THEN mi + 1 ELSE mi

InBounds(a, idx) == idx \in DOMAIN a.data

\* a faulty write: the entry left as it was
SetItemLost(a, idx, v) == a

\* a faulty write: the value added to the entry
SetItemAdds(a, idx, v) == [a EXCEPT !.data[idx] = @ + v]

\* coefs[idx] = v
SetItem(a, idx, v) == [a EXCEPT !.data[idx] = v]

RECURSIVE DecodeFrom(_, _, _, _, _, _)
\* The loop over enumerate(dataline), from position m with order counter mi:
\* the array as far as it was written and the error that stopped it.
DecodeFrom(a, r, l, toks, m, mi) ==
  IF m >= Len(toks) THEN [coefs |-> a, err |-> OK]
  ELSE IF ~IsFloatLiteral(toks[m + 1]) THEN [coefs |-> a, err |-> ValueError]
  ELSE IF ~InBounds(a, <<r, Component(m), l, mi>>) THEN [coefs |-> a, err |-> IndexError]
  ELSE DecodeFrom(SetItem(a, <<r, Component(m), l, mi>>, FloatOf[toks[m + 1]]),
                  r, l, toks, m + 1, NextMi(m, mi))

\* a faulty accumulation: the line replaces the buffer
ExtendForgets(dl, line) == line

\* dataline.extend(line.split()): the buffer after a body line is appended
Extend(dl, line) == dl \o line

\* a faulty completion test: a buffer longer than the group also decodes
GroupCompleteOrMore(dl, l) == Len(dl) >= (l * 2) + 1

\* the buffer holds the whole group of degree index l
GroupComplete(dl, l) == Len(dl) = (l * 2) + 1

\* a faulty assertion: a buffer one token short of its group refused
WithinGroupTooStrict(dl, l) == Len(dl) + 1 < (l * 2) + 1

\* a faulty iteration: the closing assertion left out
WithinGroupUnchecked(dl, l) == TRUE

\* the assertion that ends an iteration over a body line
WithinGroup(dl, l) == Len(dl) < (l * 2) + 1

\* a faulty assertion: a knot index equal to the number of knots refused
KnotInRangeStrict(r, k) == r < Len(k)

\* the assertion made before a group is decoded
KnotInRange(r, k) == r <= Len(k)

\* a faulty advance: the knot index stepped one degree early
AdvanceWrapsEarly(r, l, deg) ==
  IF l + 1 >= deg THEN [ri |-> r + 1, li |-> 0] ELSE [ri |-> r, li |-> l + 1]

\* li and ri after the group (r, l) of a model of degree deg
Advance(r, l, deg) ==
  IF l + 1 > deg THEN [ri |-> r + 1, li |-> 0] ELSE [ri |-> r, li |-> l + 1]

\* One iteration over a body line: the array a, buffer dl and counters r, l
\* before it; the state after it, the error raised and the group decoded.
ReadBodyLine(a, dl, r, l, line, deg, k) ==
  LET buf == Extend(dl, line) IN
  IF GroupComplete(buf, l)
  THEN IF ~KnotInRange(r, k)
       THEN [coefs |-> a, dataline |-> buf, ri |-> r, li |-> l,
             err |-> TooManyLines, group |-> None]
       ELSE LET d == DecodeFrom(a, r, l, buf, 0, 0)
                n == Advance(r, l, deg)
            IN IF d.err # OK
               THEN [coefs |-> d.coefs, dataline |-> buf, ri |-> r, li |-> l,
                     err |-> d.err, group |-> None]
               ELSE [coefs |-> d.coefs, dataline |-> <<>>, ri |-> n.ri, li |-> n.li,
                     err |-> IF WithinGroup(<<>>, n.li) THEN OK ELSE TooMuchData,
                     group |-> Some([ri |-> r, li |-> l, toks |-> buf])]
  ELSE [coefs |-> a, dataline |-> buf, ri |-> r, li |-> l,
        err |-> IF WithinGroup(buf, l) THEN OK ELSE TooMuchData, group |-> None]

\* ------------------------------------------------------------- the inputs
RECURSIVE Ones(_)
Ones(n) == IF n = 0 THEN <<>> ELSE <<"1">> \o Ones(n - 1)

\* the knot tables passed to the constructor: the first knots of the default table
KnotTables == {SubSeq(DEFAULT_KNOTS, 1, n) : n \in 0 .. MaxKnots}

\* header lines of the documented form, and lines that are blank, short or
\* carry a token int() rejects
DegreeBits == {Ones(n) : n \in 1 .. MaxDegree + 1} \cup {<<"0">>, <<"1", "0", "1">>}
KnotBits ==
  {Ones(n) : n \in 1 .. MaxKnots} \cup {<<"0">>, <<"0", "1">>, Ones(Len(DEFAULT_KNOTS))}
GoodHeaders == {<< <<"2">>, b, <<"2", "1">>, c >> : b \in DegreeBits, c \in KnotBits}
BadHeaders ==
  { <<>>,
    << <<"2">>, Ones(2) >>,
    << <<"x">>, Ones(2), <<"2", "1">>, Ones(1) >>,
    << <<"2">>, Ones(2), <<"x">>, Ones(1) >> }
HeaderLines == GoodHeaders \cup BadHeaders

\* body lines: up to MaxLineLen float literals, neighbours differing, and a
\* line whose token float() rejects
Tokens == DOMAIN FloatOf
Other(t) == IF t = "0.5" THEN "0.1" ELSE "0.5"
Alternating(first, n) == [i \in 1 .. n |-> IF i % 2 = 1 THEN first ELSE Other(first)]
BodyLines ==
  {Alternating(t, n) : t \in Tokens, n \in 0 .. MaxLineLen} \cup {<<"x">>}

Filenames == {"model.sph", "missing.sph"}
Exists(filename) == filename = "model.sph"

\* --------------------------------------------------------------- the state
VARIABLES
  obj,       \* "none", "constructing" (inside __init__), "live", "failed"
  pc,        \* read_sph_stream: "idle", "header" (header is None), "body"
  knots, degree, coefs,          \* the object's attributes
  header, dataline, ri, li,      \* the reader's locals
  result,    \* how the last finished call ended
  args,      \* the constructor's arguments
  pre,       \* the attributes when the current call of the reader began
  decoded,   \* the groups the current call has decoded, in order
  nlines,    \* the lines the current call has read
  nread      \* the lines read so far, over all calls

vars == <<obj, pc, knots, degree, coefs, header, dataline, ri, li,
          result, args, pre, decoded, nlines, nread>>

Init ==
  /\ obj = "none" /\ pc = "idle"
  /\ knots = <<>> /\ degree = None /\ coefs = None
  /\ header = None /\ dataline = <<>> /\ ri = 0 /\ li = 0
  /\ result = "none"
  /\ args = None
  /\ pre = None
  /\ decoded = <<>>
  /\ nlines = 0 /\ nread = 0

\* the reader's locals at entry
EnterReader(k, deg, c) ==
  /\ pc' = "header"
  /\ header' = None /\ dataline' = <<>> /\ ri' = 0 /\ li' = 0
  /\ pre' = Some([knots |-> k, degree |-> deg, coefs |-> c])
  /\ decoded' = <<>>
  /\ nlines' = 0

\* PyRTS(filename, degree, knots)
Construct(filename, deg, k) ==
  /\ obj = "none"
  /\ args' = Some([filename |-> filename, degree |-> deg, knots |-> k])
  /\ knots' = IF k = None THEN DEFAULT_KNOTS ELSE Val(k)
  /\ degree' = deg
  /\ coefs' = IF deg # None THEN AllocateCoefs(knots', Val(deg)) ELSE None
  /\ IF filename = None
     THEN /\ obj' = IF CoefsPresent(coefs') THEN "live" ELSE "failed"
          /\ result' = IF CoefsPresent(coefs') THEN OK ELSE NoShapeError
          /\ UNCHANGED <<pc, header, dataline, ri, li, pre, decoded, nlines, nread>>
     ELSE IF ~Exists(Val(filename))
     THEN /\ obj' = "failed"
          /\ result' = OSError
          /\ UNCHANGED <<pc, header, dataline, ri, li, pre, decoded, nlines, nread>>
     ELSE /\ obj' = "constructing"
          /\ EnterReader(knots', degree', coefs')
          /\ UNCHANGED <<result, nread>>

\* obj.read_sph_stream(fileobj), called on a constructed object
CallRead ==
  /\ obj = "live" /\ pc = "idle"
  /\ EnterReader(knots, degree, coefs)
  /\ UNCHANGED <<obj, knots, degree, coefs, result, args, nread>>

\* the call ends with outcome e; inside __init__ the exception, or the
\* final assertion, decides whether the object comes to exist
Leave(e, c) ==
  /\ pc' = "idle"
  /\ IF obj = "constructing"
     THEN IF e # OK THEN obj' = "failed" /\ result' = e
          ELSE IF CoefsPresent(c) THEN obj' = "live" /\ result' = OK
          ELSE obj' = "failed" /\ result' = NoShapeError
     ELSE obj' = obj /\ result' = e

\* a line read while header is None; a line not taken as the header would
\* leave header None
ReadHeader(line) ==
  /\ pc = "header"
  /\ nread < MaxLines
  /\ nread' = nread + 1
  /\ nlines' = nlines + 1
  /\ IF TakenAsHeader(line)
     THEN LET h == ReadHeaderLine(line, degree, knots, coefs) IN
            /\ header' = Some(line)
            /\ degree' = h.degree
            /\ coefs' = h.coefs
            /\ IF h.err = OK
               THEN pc' = "body" /\ UNCHANGED <<obj, result>>
               ELSE Leave(h.err, h.coefs)
     ELSE UNCHANGED <<header, degree, coefs, pc, obj, result>>
  /\ UNCHANGED <<knots, dataline, ri, li, args, pre, decoded>>

\* a later line of the stream
ReadBody(line) ==
  /\ pc = "body"
  /\ nread < MaxLines
  /\ nread' = nread + 1
  /\ LET b == ReadBodyLine(Val(coefs), dataline, ri, li, line, Val(degree), knots) IN
       /\ nlines' = nlines + 1
       /\ coefs' = Some(b.coefs)
       /\ dataline' = b.dataline
       /\ ri' = b.ri
       /\ li' = b.li
       /\ decoded' = IF b.group = None THEN decoded ELSE Append(decoded, Val(b.group))
       /\ IF b.err = OK
          THEN UNCHANGED <<pc, obj, result>>
          ELSE Leave(b.err, coefs')
  /\ UNCHANGED <<knots, degree, header, args, pre>>

\* the stream has no further line: the loop ends and the reader returns
EndOfStream ==
  /\ pc \in {"header", "body"}
  /\ Leave(OK, coefs)
  /\ UNCHANGED <<knots, degree, coefs, header, dataline, ri, li, args, pre,
                 decoded, nlines, nread>>

Next ==
  \/ \E f \in {None} \cup {Some(n) : n \in Filenames},
        d \in {None} \cup {Some(n) : n \in 0 .. MaxDegree},
        k \in {None} \cup {Some(t) : t \in KnotTables} : Construct(f, d, k)
  \/ CallRead
  \/ \E line \in HeaderLines : ReadHeader(line)
  \/ \E line \in BodyLines : ReadBody(line)
  \/ EndOfStream

Spec == Init /\ [][Next]_vars

\* ----------------------------------------------------------- shorthands
Args == Val(args)
Pre == Val(pre)
Header == Val(header)
Data == Val(coefs).data

\* a call of the reader has ended and none is in progress
Ended == pre # None /\ pc = "idle"

\* a line of the documented header form: four tokens, the first and third
\* integers
WellFormed(h) == Len(h) = 4 /\ IsIntLiteral(h[1]) /\ IsIntLiteral(h[3])

\* the array holds only zeros and has the given shape
IsZeros(c, shape) ==
  /\ c # None
  /\ Val(c).shape = shape
  /\ DOMAIN Val(c).data = Indices(shape)
  /\ \A i \in DOMAIN Val(c).data : Val(c).data[i] = 0

\* some entry of the array is not zero
Populated(c) == c # None /\ \E i \in DOMAIN Val(c).data : Val(c).data[i] # 0

RECURSIVE Flatten(_)
\* the tokens of a sequence of decoded groups, in order
Flatten(groups) ==
  IF groups = <<>> THEN <<>> ELSE Head(groups).toks \o Flatten(Tail(groups))

\* the body tokens the current call has taken from the stream
Consumed == Flatten(decoded) \o dataline

RECURSIVE OneTokenPerLine(_, _, _, _, _, _, _)
\* the reader's iterations applied to a body written one token per line
OneTokenPerLine(a, dl, r, l, toks, deg, k) ==
  IF toks = <<>> THEN [coefs |-> a, err |-> OK]
  ELSE LET b == ReadBodyLine(a, dl, r, l, <<Head(toks)>>, deg, k) IN
       IF b.err # OK THEN [coefs |-> b.coefs, err |-> b.err]
       ELSE OneTokenPerLine(b.coefs, b.dataline, b.ri, b.li, Tail(toks), deg, k)

\* the array the body of the current call started from
BodyStart == IF Pre.coefs = None THEN Zeros(Val(coefs).shape) ELSE Val(Pre.coefs)

\* ----------------------------------------------------------------- claims

\* C1: constructing a model with a degree d and a knot table K and no
\* filename succeeds, and the array has shape (len(K), 2, d+1, d+1) and is
\* zero everywhere.
C1_ZeroArrayOnConstruction ==
  (obj # "none" /\ pre = None /\ Args.filename = None /\ Args.degree # None) =>
    /\ obj = "live" /\ result = OK
    /\ knots = IF Args.knots = None THEN DEFAULT_KNOTS ELSE Val(Args.knots)
    /\ degree = Args.degree
    /\ IsZeros(coefs, <<Len(knots), 2, Val(Args.degree) + 1, Val(Args.degree) + 1>>)

C1_Witness ==
  /\ obj = "live" /\ pre = None
  /\ Args.filename = None /\ Args.degree = Some(2) /\ Args.knots = Some(<<1000000>>)
  /\ Cardinality(DOMAIN Data) = 18

\* C2: no constructed model lacks its array; construction with neither
\* degree nor filename fails, and so does construction from a stream
\* without any line when no degree is given.
C2_ConstructedHasCoefs ==
  /\ obj = "live" => coefs # None
  /\ (obj # "none" /\ Args.filename = None /\ Args.degree = None) =>
        obj = "failed" /\ result = NoShapeError
  /\ (obj \in {"live", "failed"} /\ Ended /\ Pre.coefs = None /\ nlines = 0) =>
        obj = "failed" /\ result = NoShapeError

C2_Witness ==
  /\ obj = "failed" /\ result = NoShapeError
  /\ Args.filename # None /\ Args.degree = None
  /\ Ended /\ nlines = 0

\* C3: a decoded group (ri, li) with tokens t[0..2*li] has put t[0] at
\* coefs[ri,0,li,0], every odd-position token t[m] at the real component
\* coefs[ri,0,li,(m+1)/2] and every even-position token t[m], m > 0, at the
\* imaginary component coefs[ri,1,li,m/2].
C3_TokenPlacement ==
  \A g \in 1 .. Len(decoded) :
    LET r == decoded[g].ri
        l == decoded[g].li
        t == decoded[g].toks
        Holds(idx, tok) == idx \in DOMAIN Data /\ Data[idx] = FloatOf[tok]
    IN \A m \in 0 .. Len(t) - 1 :
         /\ m = 0 => Holds(<<r, 0, l, 0>>, t[m + 1])
         /\ m % 2 = 1 => Holds(<<r, 0, l, (m + 1) \div 2>>, t[m + 1])
         /\ (m > 0 /\ m % 2 = 0) => Holds(<<r, 1, l, m \div 2>>, t[m + 1])

C3_Witness ==
  /\ Ended /\ result = OK /\ degree = Some(1) /\ Len(decoded) = 2
  /\ decoded[1] = [ri |-> 0, li |-> 0, toks |-> <<"0.5">>]
  /\ decoded[2] = [ri |-> 0, li |-> 1, toks |-> <<"0.1", "0.5", "0.1">>]
  /\ Data[<<0, 0, 0, 0>>] = 5 /\ Data[<<0, 0, 1, 0>>] = 1
  /\ Data[<<0, 0, 1, 1>>] = 5 /\ Data[<<0, 1, 1, 1>>] = 1

\* C4: every decoded group (ri, li) consumed exactly 2*li+1 tokens, never
\* fewer and never more.
C4_GroupSize ==
  \A g \in 1 .. Len(decoded) : Len(decoded[g].toks) = 2 * decoded[g].li + 1

C4_Witness ==
  /\ \E g \in 1 .. Len(decoded) : decoded[g].li = 0 /\ Len(decoded[g].toks) = 1
  /\ \E g \in 1 .. Len(decoded) : decoded[g].li = 2 /\ Len(decoded[g].toks) = 5

\* the header the current call read is of the documented form and its count
\* of active knots differs from the length of the knot table
KnotCountDiffers ==
  /\ pre # None /\ header # None /\ WellFormed(Header)
  /\ Count1(Header[4]) # Len(Pre.knots)

\* the header's degree differs from a degree the model already had
DegreeDiffers ==
  /\ pre # None /\ header # None /\ Len(Header) >= 2 /\ IsIntLiteral(Header[1])
  /\ Pre.degree # None
  /\ Count1(Header[2]) - 1 # Val(Pre.degree)

\* the attributes are as they were when the call began
Untouched == coefs = Pre.coefs /\ degree = Pre.degree /\ knots = Pre.knots

\* C5 as stated: a header whose count of active knots differs from
\* len(knots) fails the parse with the knots assertion and leaves array,
\* degree and knot table as they were.
C5_AsStated ==
  KnotCountDiffers => (pc = "idle" /\ result = KnotsHeaderError /\ Untouched)

\* C5, amended: such a header fails the parse and leaves array, degree and
\* knot table as they were; the error is the knots assertion unless the model
\* already has a degree that differs from the header's, in which case the
\* degree assertion, made first, is the error.
C5_KnotMismatchFails ==
  KnotCountDiffers =>
    /\ pc = "idle"
    /\ result = IF DegreeDiffers THEN SHHeaderError ELSE KnotsHeaderError
    /\ Untouched

C5_Witness ==
  /\ KnotCountDiffers /\ result = KnotsHeaderError
  /\ obj = "live" /\ Populated(coefs)

\* C6: when the model has a degree and the header's count of active degrees
\* minus one differs from it, the parse fails with the degree assertion, the
\* array is as it was and no body line has been read.
C6_DegreeMismatchFails ==
  DegreeDiffers =>
    /\ pc = "idle" /\ result = SHHeaderError
    /\ Untouched
    /\ nlines = 1 /\ dataline = <<>> /\ decoded = <<>>

C6_Witness ==
  /\ DegreeDiffers /\ result = SHHeaderError
  /\ obj = "live" /\ Populated(coefs)

\* C7: when the model has no degree and the header's knot count matches,
\* the degree becomes the count of '1' in the second token minus one and
\* the array is allocated for the model's own knot table, zero everywhere
\* until a body line is read.
C7_HeaderSetsDegree ==
  (pre # None /\ header # None /\ WellFormed(Header) /\ Pre.degree = None
      /\ Count1(Header[4]) = Len(Pre.knots)) =>
    /\ degree = Some(Count1(Header[2]) - 1)
    /\ knots = Pre.knots
    /\ coefs # None
    /\ Val(coefs).shape = <<Len(Pre.knots), 2, Val(degree) + 1, Val(degree) + 1>>
    /\ DOMAIN Data = Indices(Val(coefs).shape)
    /\ nlines = 1 => (IsZeros(coefs, Val(coefs).shape) /\ decoded = <<>>)

C7_Witness ==
  /\ pc = "body" /\ nlines = 1 /\ Pre.degree = None
  /\ Header[2] = <<"1", "1", "1">> /\ degree = Some(2)
  /\ IsZeros(coefs, <<1, 2, 3, 3>>)

\* C8: a call whose stream ends with tokens pending in the buffer, or before
\* len(knots)*(degree+1) groups are decoded, does not return normally.
C8_TruncationFails ==
  (Ended /\ header # None /\ degree # None
     /\ (dataline # <<>> \/ Len(decoded) < Len(knots) * (Val(degree) + 1))) =>
    result # OK

\* C9: when the buffer holds more than 2*li+1 tokens after a body line is
\* appended, the parse fails with "Too much data" and the group (ri, li) is
\* not decoded.
C9_OverrunFails ==
  (pre # None /\ Len(dataline) > 2 * li + 1) =>
    /\ pc = "idle" /\ result = TooMuchData
    /\ \A g \in 1 .. Len(decoded) : ~(decoded[g].ri = ri /\ decoded[g].li = li)

C9_Witness ==
  /\ Ended /\ result = TooMuchData
  /\ li = 1 /\ Len(dataline) = 4 /\ Len(decoded) = 1

\* the outcome and the array of the ended call are those of the same tokens
\* written one to a line
SameAsOneTokenPerLine ==
  LET ref == OneTokenPerLine(BodyStart, <<>>, 0, 0, Consumed, Val(degree), knots)
  IN result = ref.err /\ Val(coefs) = ref.coefs

\* C10 as stated: the outcome and the array depend only on the sequence of
\* body tokens, however they are split into lines (stated for bodies of no
\* more tokens than the array has coefficients).
C10_AsStated ==
  (Ended /\ nlines >= 2 /\ Len(Consumed) <= Len(knots) * (Val(degree) + 1) * (Val(degree) + 1)) =>
    SameAsOneTokenPerLine

\* C10, amended: the outcome and the array depend only on the sequence of
\* body tokens as long as no line runs past the end of the group being
\* collected; only a line that does fails the parse with "Too much data".
C10_LineBreaksInsideGroups ==
  (Ended /\ nlines >= 2) =>
    /\ result # TooMuchData => SameAsOneTokenPerLine
    /\ result = TooMuchData => Len(dataline) > 2 * li + 1

C10_Witness ==
  /\ Ended /\ result = OK /\ obj = "live"
  /\ Len(decoded) = 3 /\ decoded[3].li = 2 /\ nlines = 5

\* the array the groups decoded by the current call leave, from the array
\* the body started from
AfterDecoded ==
  OneTokenPerLine(BodyStart, <<>>, 0, 0, Flatten(decoded), Val(degree), knots).coefs

\* every group of every knot has been decoded (ri == len(knots), li == 0)
AllDecoded == pre # None /\ nlines >= 1 /\ pc # "header" /\ ri = Len(knots) /\ li = 0

\* a line carrying tokens has been read after every group was decoded
TokensAfterAllDecoded == AllDecoded /\ nlines >= 2 /\ dataline # <<>>

\* C11 as stated: once every group is decoded (ri == len(knots), li == 0,
\* empty buffer) further lines, also lines that carry tokens, are ignored and
\* the call still returns normally.
C11_AsStated ==
  (TokensAfterAllDecoded /\ Len(decoded) > 0
     /\ \A i \in 1 .. Len(dataline) : IsFloatLiteral(dataline[i])) =>
    ~(pc = "idle" /\ result # OK)

\* C11, amended: once every group is decoded, further blank lines are
\* ignored, while a further line that carries tokens fails the call (with an
\* IndexError for a single float literal, a ValueError for a single token
\* that is no float literal, "Too much data" for several tokens); in both
\* cases the array stays as the decoded groups left it.
C11_TrailingLines ==
  /\ (AllDecoded /\ nlines >= 2 /\ dataline = <<>>) =>
        /\ pc = "body" \/ result = OK
        /\ Val(coefs) = AfterDecoded
  /\ TokensAfterAllDecoded =>
        /\ pc = "idle"
        /\ result = IF Len(dataline) > 1 THEN TooMuchData
                    ELSE IF IsFloatLiteral(dataline[1]) THEN IndexError
                    ELSE ValueError
        /\ Val(coefs) = AfterDecoded

C11_Witness ==
  /\ TokensAfterAllDecoded /\ Len(knots) = 1 /\ degree = Some(1)
  /\ Len(decoded) = 2 /\ result = TooMuchData /\ Populated(coefs)

\* C12: a complete group supplied beyond the last knot is detected by the
\* assertion that ri does not exceed len(knots) and fails the call with
\* "Too many lines!".
C12_KnotOverrunAsserted ==
  (TokensAfterAllDecoded /\ Len(knots) > 0 /\ Val(degree) >= 0
     /\ Len(dataline) = 1 /\ IsFloatLiteral(dataline[1])) =>
    (pc = "idle" /\ result = TooManyLines)

\* C13 as stated: the header is the first non-empty line, so a blank first
\* line does not fail the call.
C13_AsStated ==
  (pre # None /\ nlines >= 1 /\ header = Some(<<>>)) => ~(pc = "idle" /\ result # OK)

\* C13, amended: the header is the first line of the stream, blank or not; a
\* blank first line fails the call with an IndexError, with no further line
\* read and the array, the degree and the knot table as they were.
C13_FirstLineIsHeader ==
  /\ (pre # None /\ nlines >= 1) => header # None
  /\ (pre # None /\ header = Some(<<>>)) =>
        /\ pc = "idle" /\ result = IndexError
        /\ nlines = 1 /\ Untouched

C13_Witness ==
  /\ pre # None /\ header = Some(<<>>) /\ result = IndexError
  /\ obj = "live" /\ nlines = 1

\* the arrays np.zeros gives for the knot tables and degrees of the model
ZeroArrays ==
  {Zeros(<<k, 2, d + 1, d + 1>>) :
     k \in (0 .. MaxKnots) \cup {Len(DEFAULT_KNOTS)}, d \in -1 .. MaxDegree}

\* the array is one of them: no entry of it is to be looked at
AllZero(c) == Val(c) \in ZeroArrays

\* every entry coefs[r, c, l, m] with order index m greater than degree index
\* l is zero
OrderAboveDegreeZero ==
  coefs # None =>
    \/ AllZero(coefs)
    \/ LET shape == Val(coefs).shape
           data == Val(coefs).data
       IN \A r \in 0 .. shape[1] - 1, c \in 0 .. shape[2] - 1, l \in 0 .. shape[3] - 1 :
            \A m \in l + 1 .. shape[4] - 1 : data[<<r, c, l, m>>] = 0

\* C14: in every reachable state of a model, whatever parses (successful or
\* failed) it has been through, every entry coefs[r, c, l, m] with order index
\* m greater than degree index l is zero.
C14_OrderAboveDegreeZero == []OrderAboveDegreeZero

C14_Witness ==
  /\ Ended /\ obj = "live" /\ degree = Some(2) /\ Len(decoded) >= 2
  /\ Data[<<0, 1, 1, 1>>] # 0 /\ Data[<<0, 0, 1, 2>>] = 0

\* the position of the g-th group of a parse into a model of degree d
GroupPosition(g, d) == [ri |-> (g - 1) \div (d + 1), li |-> (g - 1) % (d + 1)]

\* (r1, l1) comes before (r2, l2) in lexicographic order
LexLess(r1, l1, r2, l2) == r1 < r2 \/ (r1 = r2 /\ l1 < l2)

\* C15: within one parse the groups are decoded in strictly increasing
\* lexicographic (ri, li) order, li running 0..degree inside each ri and ri
\* advancing by one when li passes degree; no pair is decoded twice and none
\* is skipped.
C15_GroupOrder ==
  (pre # None /\ Len(decoded) > 0) =>
    /\ Val(degree) >= 0
    /\ \A g \in 1 .. Len(decoded) :
         /\ decoded[g].ri = GroupPosition(g, Val(degree)).ri
         /\ decoded[g].li = GroupPosition(g, Val(degree)).li
         /\ decoded[g].li \in 0 .. Val(degree)
    /\ \A g, h \in 1 .. Len(decoded) :
         g < h => LexLess(decoded[g].ri, decoded[g].li, decoded[h].ri, decoded[h].li)
    /\ ri = GroupPosition(Len(decoded) + 1, Val(degree)).ri
    /\ li = GroupPosition(Len(decoded) + 1, Val(degree)).li

C15_Witness ==
  /\ pre # None /\ degree = Some(1) /\ Len(decoded) = 3
  /\ decoded[2].ri = 0 /\ decoded[2].li = 1
  /\ decoded[3].ri = 1 /\ decoded[3].li = 0
  /\ ri = 1 /\ li = 1

\* the number of body tokens a model of the current shape holds:
\* (degree+1)^2 for each knot
TokensExpected == Len(knots) * (Val(degree) + 1) * (Val(degree) + 1)

\* the stream read so far by the current call is the beginning of a
\* well-formed stream: a header of the documented form that matches the knot
\* table and the degree the model had (and stands for a degree of 0 or more),
\* then float literals, no line carrying tokens past the end of its group and
\* no token past the last group
WellFormedSoFar ==
  /\ pre # None /\ header # None /\ WellFormed(Header)
  /\ Count1(Header[4]) = Len(Pre.knots)
  /\ Count1(Header[2]) >= 1
  /\ Pre.degree # None => Count1(Header[2]) - 1 = Val(Pre.degree)
  /\ \A i \in 1 .. Len(Consumed) : IsFloatLiteral(Consumed[i])
  /\ Len(dataline) <= 2 * li + 1
  /\ Len(Consumed) <= TokensExpected

\* C16: a well-formed stream (matching header, then exactly
\* len(knots)*(degree+1) groups, each ending at a line boundary) is parsed
\* without error, every line consumed, and the parse ends with
\* len(knots)*(degree+1) groups decoded, ri == len(knots), li == 0 and an
\* empty buffer.
C16_WellFormedParses ==
  WellFormedSoFar =>
    /\ pc = "body" \/ (pc = "idle" /\ result = OK /\ obj = "live")
    /\ degree = Some(Count1(Header[2]) - 1)
    /\ Len(Consumed) = TokensExpected =>
         /\ Len(decoded) = Len(knots) * (Val(degree) + 1)
         /\ ri = Len(knots) /\ li = 0 /\ dataline = <<>>

C16_Witness ==
  /\ WellFormedSoFar /\ Ended /\ result = OK
  /\ Len(knots) = 1 /\ degree = Some(2) /\ Len(Consumed) = 9
  /\ Len(decoded) = 3 /\ ri = 1 /\ li = 0 /\ dataline = <<>>

\* the shape the knot table k and the degree deg determine
ShapeOf(k, deg) == <<Len(k), 2, Val(deg) + 1, Val(deg) + 1>>

\* C17: once the degree is set, by the constructor argument or by the first
\* parsed header, no step changes it, a further parse whose header carries
\* another degree included; no step changes the knot table of a model or the
\* shape of its array, which is (len(knots), 2, degree+1, degree+1).
C17_DegreeKnotsShapeFixed ==
  [][ /\ degree # None => degree' = degree
      /\ obj # "none" => knots' = knots
      /\ coefs # None => (coefs' # None /\ Val(coefs').shape = Val(coefs).shape)
      /\ coefs' # None => (degree' # None /\ Val(coefs').shape = ShapeOf(knots', degree'))
    ]_vars

C17_Witness ==
  /\ DegreeDiffers /\ Ended /\ result = SHHeaderError /\ obj = "live"
  /\ Args.degree = None /\ degree = Some(1) /\ Count1(Header[2]) = 3
  /\ Val(coefs).shape = ShapeOf(knots, degree)

\* C18: the parser never writes the imaginary component at order index 0: no
\* step changes coefs[r, 1, l, 0], which is zero in a newly allocated array,
\* so it is after any parse what it was before it.
C18_ImaginaryOrderZero ==
  [][ coefs' # None =>
        \/ coefs' = coefs
        \/ LET shape == Val(coefs').shape
               after == Val(coefs').data
           IN \A r \in 0 .. shape[1] - 1, l \in 0 .. shape[3] - 1 :
                after[<<r, 1, l, 0>>] =
                  IF coefs = None THEN 0 ELSE Val(coefs).data[<<r, 1, l, 0>>]
    ]_vars

C18_Witness ==
  /\ Ended /\ obj = "live" /\ degree = Some(1) /\ Len(decoded) = 2
  /\ Data[<<0, 0, 0, 0>>] # 0 /\ Data[<<0, 0, 1, 0>>] # 0 /\ Data[<<0, 1, 1, 1>>] # 0
  /\ Data[<<0, 1, 0, 0>>] = 0 /\ Data[<<0, 1, 1, 0>>] = 0

\* the tokens of the g-th decoded group are in the array, at the entries of C3
GroupWritten(g) ==
  LET r == decoded[g].ri
      l == decoded[g].li
      t == decoded[g].toks
  IN \A m \in 0 .. Len(t) - 1 :
       Data[<<r, Component(m), l, IF m = 0 THEN 0 ELSE (m + 1) \div 2>>] = FloatOf[t[m + 1]]

RECURSIVE EraseTokens(_, _, _, _)
\* the array a with the entries of the first n tokens of group (r, l) set to 0
EraseTokens(a, r, l, n) ==
  IF n = 0 THEN a
  ELSE EraseTokens([a EXCEPT !.data[<<r, Component(n - 1), l, n \div 2>>] = 0], r, l, n - 1)

RECURSIVE EraseGroups(_, _)
\* the array a with the entries of the given decoded groups set to 0
EraseGroups(a, groups) ==
  IF groups = <<>> THEN a
  ELSE EraseGroups(EraseTokens(a, Head(groups).ri, Head(groups).li, Len(Head(groups).toks)),
                   Tail(groups))

\* C19: a parse into a model that has an array, failing with "Too much data"
\* while group (ri, li) is collected, is not rolled back: every group decoded
\* before the failure keeps the values written, and every entry of group
\* (ri, li) or of a later group keeps the value it had before the parse (as
\* does every entry that is not an entry of a decoded group: with the entries
\* of the decoded groups, all before (ri, li), left out, the array is the one
\* the parse started from).
C19_NoRollback ==
  (Ended /\ result = TooMuchData /\ Pre.coefs # None) =>
    /\ \A g \in 1 .. Len(decoded) :
         LexLess(decoded[g].ri, decoded[g].li, ri, li) /\ GroupWritten(g)
    /\ EraseGroups(Val(coefs), decoded) = EraseGroups(Val(Pre.coefs), decoded)

C19_Witness ==
  /\ Ended /\ result = TooMuchData /\ obj = "live" /\ Populated(Pre.coefs)
  /\ Len(decoded) = 1 /\ ri = 1 /\ li = 0 /\ Len(dataline) = 2
  /\ Data[<<0, 0, 0, 0>>] = 1 /\ Val(Pre.coefs).data[<<0, 0, 0, 0>>] = 5
  /\ Data[<<1, 0, 0, 0>>] = 0

\* the array a parse of the tokens the current call consumed leaves in a
\* freshly allocated model of the same shape
ParsedIntoFresh ==
  OneTokenPerLine(Zeros(Val(coefs).shape), <<>>, 0, 0, Consumed, Val(degree), knots).coefs

\* C20: parsing a well-formed stream into a model populated by earlier parses
\* gives the array that parsing it into a freshly allocated model of the same
\* shape gives; so parsing a stream twice gives what parsing it once gives.
C20_ReparseHistoryIndependent ==
  (WellFormedSoFar /\ Ended /\ result = OK /\ Len(Consumed) = TokensExpected) =>
    Val(coefs) = ParsedIntoFresh

C20_Witness ==
  /\ WellFormedSoFar /\ Ended /\ result = OK /\ Len(Consumed) = TokensExpected
  /\ Populated(Pre.coefs) /\ coefs # Pre.coefs /\ Populated(coefs)
  /\ Val(coefs) = ParsedIntoFresh

====
